---- MODULE Spec2Model ----
(***************************************************************************)
(* Session / token lifecycle of the home-cleaning client:                  *)
(*   - the HTTP client wrapper (services/api.js): request interceptor,     *)
(*     response interceptor with the 401 refresh-and-retry path;           *)
(*   - the session context (context/AuthContext.jsx): checkAuth and the    *)
(*     OAuth handler that run on mount;                                    *)
(*   - the OAuth callback page (pages/GoogleCallback.jsx);                 *)
(*   - the Login / Register pages and the data pages (CleanerBookings,     *)
(*     ServiceList, ReviewBooking, PaymentPage) with their services.       *)
(* One behaviour is one page load (one document).  JavaScript runs each    *)
(* callback to completion, so one action is one task: a mount effect, or   *)
(* the arrival of one network response together with every continuation   *)
(* (interceptor, awaiting caller) that runs in its microtasks.             *)
(***************************************************************************)
EXTENDS Integers, Sequences, FiniteSets, TLC

\* ---------------------------------------------------------------- bounds
MaxReq == 2        \* page-issued requests per page load
MaxTok == 3        \* token pairs the backend can issue (pair 1 may be stored at load)
MaxLogout == 1     \* clicks on Logout per page load

\* ------------------------------------------------------------ vocabulary
NoToken == 0                       \* localStorage.getItem(...) === null
NoAuth == [scheme |-> "none", cred |-> NoToken]
Bearer(token) == [scheme |-> "Bearer", cred |-> token]

NoError == [response |-> TRUE, status |-> 0, name |-> "none"]
HttpError(s) == [response |-> TRUE, status |-> s, name |-> "AxiosError"]
NetworkError == [response |-> FALSE, status |-> 0, name |-> "AxiosError"]
TypeError == [response |-> FALSE, status |-> 0, name |-> "TypeError"]
ErrorStatuses == {401, 403, 500}
Errors == {HttpError(s) : s \in ErrorStatuses} \cup {NetworkError}

\* the URL of the page load: the path as its segments, and which query
\* parameters are present
CallbackPath == <<"google-callback">>
ApiCallbackPath == <<"api", "auth", "google", "callback">>
JobsPath == <<"cleaner-jobs">>
DashboardPath == <<"dashboard">>
LoginPath == <<"login">>
RegisterPath == <<"register">>
SearchPath == <<"search">>
ReviewPath == <<"review", ":id">>
PaymentPath == <<"payment", ":id">>
MyBookingsPath == <<"my-bookings">>
Paths == {CallbackPath, ApiCallbackPath, JobsPath}
SessionPaths == {LoginPath, RegisterPath}
CallbackRoutes == {CallbackPath, ApiCallbackPath}

\* values assigned to window.location.href, split at the '?'
LoginHref == [path |-> "/login", query |-> ""]
DashboardHref == [path |-> "/dashboard", query |-> ""]
GoogleFailedHref == [path |-> "/login", query |-> "error=google_login_failed"]

Owners == {"checkAuth", "providerOAuth", "pageOAuth", "page",
           "login", "register", "getCleanerBookings", "updateStatus",
           "searchServices", "ReviewBooking.getBooking", "createReview",
           "PaymentPage.getBooking", "initiatePayment", "verifyPayment"}
OAuthOwners == {"providerOAuth", "pageOAuth"}
\* callers started by a user action on a rendered page
UserOwners == {"page", "login", "register", "updateStatus",
               "searchServices", "createReview", "initiatePayment"}

Users == {"alice", "bob"}
VerifyMessage == "Please verify your email"

\* booking statuses and the bookings GET /bookings/cleaner may return
Statuses == {"pending", "confirmed", "in_progress", "completed", "cancelled"}
Booking(id, status, price) == [id |-> id, status |-> status, total_price |-> price]
BookingLists ==
    {<<>>} \cup {<<Booking(1, s, 10), Booking(2, "completed", 20)>> :
                    s \in {"pending", "confirmed"}}

\* the ServiceList filter form: the options / values entered
Categories == {"", "deep"}
MinPrices == {"", "500"}
MaxPrices == {""}                  \* the max_price field is left empty
FilterValues(name) ==
    CASE name = "category" -> Categories
      [] name = "min_price" -> MinPrices
      [] name = "max_price" -> MaxPrices
NoFilters == [category |-> "", min_price |-> "", max_price |-> ""]

\* the ReviewBooking form: the five stars and the stars a user clicks (the
\* optional comment is left empty)
Stars == {1, 2, 3, 4, 5}
ClickedStars == {4, 5}

\* the booking of /review/:id and /payment/:id (useState(null) before it is
\* fetched), and the ids of payments
NoBooking == [id |-> 0, cleaner_id |-> "null", total_price |-> 0]
TheBooking == [id |-> 1, cleaner_id |-> "carol", total_price |-> 10]
PaymentIds == {"pay_1", "pay_2"}

\* what a caller passes with its request
NoArg == [who |-> "null", id |-> 0, status |-> "none",
          params |-> <<>>, rating |-> 0, comment |-> "", payment |-> "none"]

VARIABLES
    url,        \* window.location of the document: [path, code, error]
    storage,    \* localStorage: [access, refresh], NoToken when the key is absent
    user,       \* AuthProvider state `user` ("null" or a user id)
    loading,    \* AuthProvider state `loading`
    mounted,    \* the AuthProvider mount effects have run
    hrefLog,    \* every value assigned to window.location.href, in order
    route,      \* the router's current path (changed by navigate())
    cb,         \* GoogleCallback page: [mounted, loading, error]
    reqs,       \* the requests made through `api`, in order of creation
    nextTok,    \* backend: the next token pair it will issue
    refreshCalls, \* number of POST /auth/refresh calls put on the wire
    form,       \* Login / Register page: [error, success]
    jobs,       \* CleanerBookings page: [mounted, loading, bookings]
    logouts,    \* number of logout() calls
    search,     \* ServiceList page: [mounted, loading, services, filters]
    review,     \* ReviewBooking page: [mounted, loading, booking, rating, comment, error]
    pay         \* PaymentPage: [mounted, loading, booking, processing, error]

vars == <<url, storage, user, loading, mounted, hrefLog, route, cb, reqs,
          nextTok, refreshCalls, form, jobs, logouts, search, review, pay>>

\* --------------------------------------------------------- api.js helpers

\* String.prototype.includes('google-callback') on the pathname: the needle
\* has no '/', so it occurs in the path iff it occurs inside one segment; of
\* the segments used here only "google-callback" contains it.
PathIncludesGoogleCallback(path) ==
    \E i \in 1..Len(path) : path[i] = "google-callback"

\* request interceptor: reads access_token at send time and overwrites the
\* config's Authorization header when the token is truthy
RequestInterceptorNoAttach(auth, st) ==
    auth

RequestInterceptor(auth, st) ==
    IF st.access # NoToken THEN Bearer(st.access) ELSE auth

\* localStorage.setItem('access_token', ..); setItem('refresh_token', ..)
StoreRefreshTokenOnly(st, tokens) ==
    [st EXCEPT !.refresh = tokens.refresh_token]

StoreAccessTokenOnly(st, tokens) ==
    [st EXCEPT !.access = tokens.access_token]

StoreTokens(st, tokens) ==
    [st EXCEPT !.access = tokens.access_token, !.refresh = tokens.refresh_token]

\* localStorage.removeItem('access_token'); removeItem('refresh_token')
RemoveAccessTokenOnly(st) ==
    [st EXCEPT !.access = NoToken]

RemoveTokens(st) ==
    [st EXCEPT !.access = NoToken, !.refresh = NoToken]

\* the branch the response interceptor's error handler takes
\*   "throw"   error.response is undefined: reading .status throws TypeError
\*   "refresh" 401, not retried, refresh token present
\*   "reject"  everything else (falls through to Promise.reject(error))
ErrorActionAnyStatus(err, retry, refreshToken) ==
    IF ~err.response THEN "throw"
    ELSE IF ~retry
         THEN IF refreshToken # NoToken THEN "refresh" ELSE "reject"
         ELSE "reject"

ErrorActionIgnoringRetry(err, retry, refreshToken) ==
    IF ~err.response THEN "throw"
    ELSE IF err.status = 401
         THEN IF refreshToken # NoToken THEN "refresh" ELSE "reject"
         ELSE "reject"

ErrorActionWrongStatus(err, retry, refreshToken) ==
    IF ~err.response THEN "throw"
    ELSE IF err.status = 403 /\ ~retry
         THEN IF refreshToken # NoToken THEN "refresh" ELSE "reject"
         ELSE "reject"

ErrorAction(err, retry, refreshToken) ==
    IF ~err.response THEN "throw"
    ELSE IF err.status = 401 /\ ~retry
         THEN IF refreshToken # NoToken THEN "refresh" ELSE "reject"
         ELSE "reject"

\* originalRequest._retry after the handler ran
RetryMarkNever(err, retry) ==
    retry

RetryMark(err, retry) ==
    retry \/ (err.response /\ err.status = 401)

\* the pair the backend issues as number k
TokenPair(k) == [access_token |-> k, refresh_token |-> k]

NewRequestWith(owner, st, arg) ==
    [owner |-> owner, pc |-> "inflight", retry |-> FALSE,
     auth |-> RequestInterceptor(NoAuth, st),
     sent |-> <<[auth |-> RequestInterceptor(NoAuth, st), stored |-> st.access]>>,
     refreshes |-> 0, hit401rt |-> FALSE, refreshWith |-> NoToken,
     newTok |-> NoToken, error |-> NoError,
     arg |-> arg, received |-> NoError, reply |-> "none"]

NewRequest(owner, st) == NewRequestWith(owner, st, NoArg)

PageRequests == {r \in DOMAIN reqs : reqs[r].owner \in UserOwners}

\* --------------------------------------------- continuations of the callers

\* the client state a continuation may change
Client ==
    [storage |-> storage, user |-> user, loading |-> loading,
     hrefLog |-> hrefLog, route |-> route, cb |-> cb,
     form |-> form, jobs |-> jobs,
     search |-> search, review |-> review, pay |-> pay]

SetClient(c) ==
    /\ storage' = c.storage
    /\ user' = c.user
    /\ loading' = c.loading
    /\ hrefLog' = c.hrefLog
    /\ route' = c.route
    /\ cb' = c.cb
    /\ form' = c.form
    /\ jobs' = c.jobs
    /\ search' = c.search
    /\ review' = c.review
    /\ pay' = c.pay

\* AuthProvider checkAuth after `await api.get('/auth/me')`
checkAuth(ok, data, c) ==
    IF ok THEN [c EXCEPT !.user = data.user, !.loading = FALSE]
    ELSE [c EXCEPT !.storage = RemoveTokens(c.storage), !.loading = FALSE]

\* AuthProvider's mount-effect handleGoogleCallback after its await
effectHandleGoogleCallback(ok, data, c) ==
    IF ok THEN [c EXCEPT !.storage = StoreTokens(c.storage, data.tokens),
                         !.user = data.user,
                         !.hrefLog = Append(@, DashboardHref)]
    ELSE [c EXCEPT !.hrefLog = Append(@, GoogleFailedHref)]

\* the context's handleGoogleCallback(code, state) awaited by the page's
\* processCallback, and processCallback's own continuation
processCallback(ok, data, err, c) ==
    IF ok THEN [c EXCEPT !.storage = StoreTokens(c.storage, data.tokens),
                         !.user = data.user,
                         !.route = DashboardPath]
    ELSE [c EXCEPT !.cb = [@ EXCEPT !.loading = FALSE,
                                    !.error = IF err.response THEN "detail"
                                              ELSE "Failed to complete Google login"]]

\* `err.response?.data?.detail || fallback` (the backend sends a detail
\* with its error responses)
ErrorDetail(err, fallback) ==
    IF err.response THEN "detail" ELSE fallback

\* `if (response.data.tokens)`
HasTokens(data) == data.tokens.access_token # NoToken

\* AuthProvider login after `await api.post('/auth/login')`
loginKeepsUser(data, c) ==
    [c EXCEPT !.storage = StoreTokens(c.storage, data.tokens)]

login(data, c) ==
    [c EXCEPT !.storage = StoreTokens(c.storage, data.tokens),
              !.user = data.user]

\* Login page handleSubmit around `await login(email, password)`
LoginHandleSubmit(ok, data, err, c) ==
    IF ok THEN [login(data, c) EXCEPT !.route = DashboardPath]
    ELSE [c EXCEPT !.form = [@ EXCEPT !.error = ErrorDetail(err, "Login failed")]]

\* AuthProvider register after `await api.post('/auth/register')`
registerAssumesTokens(data, c) ==
    [c EXCEPT !.storage = StoreTokens(c.storage, data.tokens),
              !.user = data.user]

register(data, c) ==
    IF HasTokens(data)
    THEN [c EXCEPT !.storage = StoreTokens(c.storage, data.tokens),
                   !.user = data.user]
    ELSE c

\* what register returns: the user object (no message, no tokens field) or
\* response.data
registerResult(data) ==
    IF HasTokens(data) THEN [message |-> "", tokens |-> FALSE]
    ELSE [message |-> data.message, tokens |-> HasTokens(data)]

\* Register page handleSubmit around `await register(formData)`
RegisterHandleSubmit(ok, data, err, c) ==
    IF ok
    THEN IF registerResult(data).message # "" /\ ~registerResult(data).tokens
         THEN [register(data, c) EXCEPT
                 !.form = [@ EXCEPT !.success = registerResult(data).message]]
         ELSE [register(data, c) EXCEPT !.route = DashboardPath]
    ELSE [c EXCEPT !.form = [@ EXCEPT !.error = ErrorDetail(err, "Registration failed")]]

\* AuthProvider logout
logoutKeepsUser(c) ==
    [c EXCEPT !.storage = RemoveTokens(c.storage),
              !.hrefLog = Append(@, LoginHref)]

logout(c) ==
    [c EXCEPT !.storage = RemoveTokens(c.storage),
              !.user = "null",
              !.hrefLog = Append(@, LoginHref)]

\* CleanerBookings: the buttons rendered for a booking of this status
OfferedCancelAnytime(status) ==
    CASE status = "pending" -> {"confirmed", "cancelled"}
      [] status = "confirmed" -> {"in_progress", "cancelled"}
      [] status = "in_progress" -> {"completed"}
      [] OTHER -> {}

Offered(status) ==
    CASE status = "pending" -> {"confirmed", "cancelled"}
      [] status = "confirmed" -> {"in_progress"}
      [] status = "in_progress" -> {"completed"}
      [] OTHER -> {}

\* prev.map(booking => booking.id === bookingId
\*                     ? { ...booking, status: newStatus } : booking)
MapStatusAll(list, id, status) ==
    [i \in DOMAIN list |-> [list[i] EXCEPT !.status = status]]

MapStatus(list, id, status) ==
    [i \in DOMAIN list |->
        IF list[i].id = id THEN [list[i] EXCEPT !.status = status] ELSE list[i]]

\* CleanerBookings mount effect: .then / .catch / .finally
getCleanerBookingsDone(ok, data, c) ==
    IF ok THEN [c EXCEPT !.jobs = [@ EXCEPT !.bookings = data.bookings,
                                            !.loading = FALSE]]
    ELSE [c EXCEPT !.jobs = [@ EXCEPT !.loading = FALSE]]

\* what CleanerBookings renders: `if (loading)`, `bookings.length === 0`
CleanerBookingsView(j) ==
    IF j.loading THEN "loading"
    ELSE IF Len(j.bookings) = 0 THEN "empty" ELSE "list"

\* CleanerBookings handleStatusUpdate after `await updateStatus(..)`
handleStatusUpdate(ok, arg, c) ==
    IF ok THEN [c EXCEPT !.jobs = [@ EXCEPT !.bookings =
                                     MapStatus(@, arg.id, arg.status)]]
    ELSE c

\* `new URLSearchParams(filters)`: one name/value pair per own property of
\* the object, in insertion order, empty strings included; toString() joins
\* them as name=value with '&'
URLSearchParams(filters) ==
    <<[name |-> "category", value |-> filters.category],
      [name |-> "min_price", value |-> filters.min_price],
      [name |-> "max_price", value |-> filters.max_price]>>

\* ServiceList fetchServices up to `await serviceService.searchServices(..)`:
\* setLoading(true)
fetchServices(sr) ==
    [sr EXCEPT !.loading = TRUE]

\* ServiceList fetchServices after the await: try / catch / finally
fetchServicesDone(ok, data, c) ==
    IF ok THEN [c EXCEPT !.search = [@ EXCEPT !.services = data.services,
                                              !.loading = FALSE]]
    ELSE [c EXCEPT !.search = [@ EXCEPT !.loading = FALSE]]

\* what ServiceList renders below the filter bar
ServiceListView(sr) ==
    IF sr.loading THEN "loading"
    ELSE IF Len(sr.services) = 0 THEN "empty" ELSE "list"

\* Number-to-string conversion and parseInt on the ratings: the star
\* values are numbers, parseInt converts its argument to a string and
\* parses the leading decimal digits
DecimalDigits == <<"0", "1", "2", "3", "4", "5", "6", "7", "8", "9">>
NumberToString(n) == DecimalDigits[n + 1]
parseInt(n) ==
    CHOOSE k \in 0..9 : DecimalDigits[k + 1] = NumberToString(n)

\* ReviewBooking / PaymentPage mount effect: then / catch / finally
ReviewGetBookingDone(ok, data, c) ==
    IF ok THEN [c EXCEPT !.review = [@ EXCEPT !.booking = data.booking,
                                              !.loading = FALSE]]
    ELSE [c EXCEPT !.review = [@ EXCEPT !.error = "Booking not found",
                                        !.loading = FALSE]]

\* what ReviewBooking renders
ReviewBookingView(rv) ==
    IF rv.loading THEN "loading"
    ELSE IF rv.error # "" THEN "error" ELSE "form"

\* the object ReviewBooking handleSubmit passes to createReview
ReviewData(rv) ==
    [NoArg EXCEPT !.id = TheBooking.id,
                  !.who = rv.booking.cleaner_id,
                  !.rating = parseInt(rv.rating),
                  !.comment = rv.comment]

\* ReviewBooking handleSubmit after `await reviewService.createReview(..)`
ReviewHandleSubmitNavigatesAnyway(ok, err, c) ==
    [c EXCEPT !.route = MyBookingsPath]

ReviewHandleSubmit(ok, err, c) ==
    IF ok THEN [c EXCEPT !.route = MyBookingsPath]
    ELSE [c EXCEPT !.review = [@ EXCEPT !.error =
                                 ErrorDetail(err, "Failed to submit review")]]

\* PaymentPage mount effect: then / catch / finally
PaymentGetBookingDone(ok, data, c) ==
    IF ok THEN [c EXCEPT !.pay = [@ EXCEPT !.booking = data.booking,
                                           !.loading = FALSE]]
    ELSE [c EXCEPT !.pay = [@ EXCEPT !.error = "Booking not found",
                                     !.loading = FALSE]]

\* what PaymentPage renders
PaymentPageView(p) ==
    IF p.loading THEN "loading"
    ELSE IF p.error # "" THEN "error" ELSE "page"

\* the pay button: `disabled={processing}`
PayButtonEnabledAlways(p) ==
    TRUE

PayButtonEnabled(p) ==
    ~p.processing

\* PaymentPage handlePayment after `await paymentService.initiatePayment(..)`:
\* on success it goes on to verifyPayment (see Spawned), on failure to its
\* catch and finally
handlePaymentInitiated(ok, err, c) ==
    IF ok THEN c
    ELSE [c EXCEPT !.pay = [@ EXCEPT !.error = ErrorDetail(err, "Payment failed"),
                                     !.processing = FALSE]]

\* PaymentPage handlePayment after `await paymentService.verifyPayment(..)`
handlePaymentVerified(ok, err, c) ==
    IF ok THEN [c EXCEPT !.route = MyBookingsPath,
                         !.pay = [@ EXCEPT !.processing = FALSE]]
    ELSE [c EXCEPT !.pay = [@ EXCEPT !.error = ErrorDetail(err, "Payment failed"),
                                     !.processing = FALSE]]

\* the request a continuation makes before it awaits again:
\* `await paymentService.verifyPayment(response.payment_id)`
Spawned(q, data, st) ==
    IF q.owner = "initiatePayment"
    THEN <<NewRequestWith("verifyPayment", st,
                          [NoArg EXCEPT !.payment = data.payment_id])>>
    ELSE <<>>

\* what runs when the promise of a request settles
Continue(q, ok, data, err, c) ==
    CASE q.owner = "checkAuth" -> checkAuth(ok, data, c)
      [] q.owner = "providerOAuth" -> effectHandleGoogleCallback(ok, data, c)
      [] q.owner = "pageOAuth" -> processCallback(ok, data, err, c)
      [] q.owner = "login" -> LoginHandleSubmit(ok, data, err, c)
      [] q.owner = "register" -> RegisterHandleSubmit(ok, data, err, c)
      [] q.owner = "getCleanerBookings" -> getCleanerBookingsDone(ok, data, c)
      [] q.owner = "updateStatus" -> handleStatusUpdate(ok, q.arg, c)
      [] q.owner = "searchServices" -> fetchServicesDone(ok, data, c)
      [] q.owner = "ReviewBooking.getBooking" -> ReviewGetBookingDone(ok, data, c)
      [] q.owner = "createReview" -> ReviewHandleSubmit(ok, err, c)
      [] q.owner = "PaymentPage.getBooking" -> PaymentGetBookingDone(ok, data, c)
      [] q.owner = "initiatePayment" -> handlePaymentInitiated(ok, err, c)
      [] q.owner = "verifyPayment" -> handlePaymentVerified(ok, err, c)
      [] OTHER -> c

NoData ==
    [user |-> "null", tokens |-> TokenPair(NoToken), message |-> "",
     bookings |-> <<>>, services |-> <<>>, booking |-> NoBooking,
     payment_id |-> "none"]

\* GET /services/search: the services matching the query of the request
ServicesFor(q) ==
    <<[id |-> q.arg.id]>>

\* the response bodies the backend may answer a request with
Replies(q) ==
    CASE q.owner \in OAuthOwners ->
            {[NoData EXCEPT !.user = "alice", !.tokens = TokenPair(nextTok)]}
      [] q.owner = "login" ->
            {[NoData EXCEPT !.user = q.arg.who, !.tokens = TokenPair(nextTok)]}
      [] q.owner = "register" ->
            {[NoData EXCEPT !.user = q.arg.who, !.tokens = TokenPair(nextTok)],
             [NoData EXCEPT !.message = VerifyMessage]}
      [] q.owner = "checkAuth" -> {[NoData EXCEPT !.user = "alice"]}
      [] q.owner = "getCleanerBookings" ->
            {[NoData EXCEPT !.bookings = l] : l \in BookingLists}
      [] q.owner = "searchServices" ->
            {[NoData EXCEPT !.services = ServicesFor(q)]}
      [] q.owner \in {"ReviewBooking.getBooking", "PaymentPage.getBooking"} ->
            {[NoData EXCEPT !.booking = TheBooking]}
      [] q.owner = "initiatePayment" ->
            {[NoData EXCEPT !.payment_id = id] : id \in PaymentIds}
      [] OTHER -> {NoData}

ReplyKind(data) ==
    IF HasTokens(data) THEN "tokens"
    ELSE IF data.message # "" THEN "message"
    ELSE IF data.payment_id # "none" THEN data.payment_id ELSE "data"

\* `{!loading && children}`: the routed pages and the Navbar
ChildrenRenderedAlways(ld) ==
    TRUE

ChildrenRendered(ld) ==
    ~ld

\* ------------------------------------------------------------------ Init
InitAt(urls) ==
    /\ url \in urls
    /\ storage \in {[access |-> NoToken, refresh |-> NoToken],
                    [access |-> 1, refresh |-> 1]}
    /\ user = "null"
    /\ loading = TRUE
    /\ mounted = FALSE
    /\ hrefLog = <<>>
    /\ route = url.path
    /\ cb = [mounted |-> FALSE, loading |-> TRUE, error |-> ""]
    /\ reqs = <<>>
    /\ nextTok = 2
    /\ refreshCalls = 0
    /\ form = [error |-> "", success |-> ""]
    /\ jobs = [mounted |-> FALSE, loading |-> TRUE, bookings |-> <<>>]
    /\ logouts = 0
    /\ search = [mounted |-> FALSE, loading |-> TRUE, services |-> <<>>,
                 filters |-> NoFilters]
    /\ review = [mounted |-> FALSE, loading |-> TRUE, booking |-> NoBooking,
                 rating |-> 5, comment |-> "", error |-> ""]
    /\ pay = [mounted |-> FALSE, loading |-> TRUE, booking |-> NoBooking,
              processing |-> FALSE, error |-> ""]

\* a page load of a callback route or of a data page, any query parameters
Init == InitAt([path : Paths, code : BOOLEAN, error : BOOLEAN])

\* a page load of /login or /register
SessionInit == InitAt([path : SessionPaths, code : {FALSE}, error : {FALSE}])

\* a page load of /review/:id
ReviewInit == InitAt([path : {ReviewPath}, code : {FALSE}, error : {FALSE}])

\* a page load of /login, /register or a callback route carrying a code
AuthInit ==
    InitAt([path : SessionPaths, code : {FALSE}, error : {FALSE}]
           \cup [path : CallbackRoutes, code : {TRUE}, error : {FALSE}])

\* a page load of /payment/:id
PaymentInit == InitAt([path : {PaymentPath}, code : {FALSE}, error : {FALSE}])

\* a page load of /search
SearchInit == InitAt([path : {SearchPath}, code : {FALSE}, error : {FALSE}])

\* a page load of /cleaner-jobs
JobsInit == InitAt([path : {JobsPath}, code : {FALSE}, error : {FALSE}])

\* --------------------------------------------------------------- actions

\* AuthProvider mounts: both useEffect callbacks run, each up to its await
ProviderMount ==
    /\ ~mounted
    /\ mounted' = TRUE
    /\ LET me == IF storage.access # NoToken
                 THEN <<NewRequest("checkAuth", storage)>> ELSE <<>>
           ex == IF url.code /\ PathIncludesGoogleCallback(url.path)
                 THEN <<NewRequest("providerOAuth", storage)>> ELSE <<>>
       IN  reqs' = reqs \o me \o ex
    /\ loading' = IF storage.access # NoToken THEN loading ELSE FALSE
    /\ UNCHANGED <<url, storage, user, hrefLog, route, cb, nextTok, refreshCalls,
                   form, jobs, logouts,
                   search, review, pay>>

\* the GoogleCallback page is rendered (children render once loading is
\* false) and its effect runs processCallback up to its first await
GoogleCallbackMount ==
    /\ mounted /\ ChildrenRendered(loading)
    /\ route \in CallbackRoutes
    /\ ~cb.mounted
    /\ IF url.error
       THEN /\ cb' = [mounted |-> TRUE, loading |-> FALSE,
                      error |-> "Google login was cancelled or failed"]
            /\ reqs' = reqs
       ELSE IF ~url.code
       THEN /\ cb' = [mounted |-> TRUE, loading |-> FALSE,
                      error |-> "No authorization code received from Google"]
            /\ reqs' = reqs
       ELSE /\ cb' = [cb EXCEPT !.mounted = TRUE]
            /\ reqs' = Append(reqs, NewRequest("pageOAuth", storage))
    /\ UNCHANGED <<url, storage, user, loading, mounted, hrefLog, route,
                   nextTok, refreshCalls, form, jobs, logouts,
                   search, review, pay>>

\* a routed page calls a domain service function (bookingService.*)
PageRequest ==
    /\ mounted /\ ChildrenRendered(loading)
    /\ route = JobsPath
    /\ Cardinality(PageRequests) < MaxReq
    /\ reqs' = Append(reqs, NewRequest("page", storage))
    /\ UNCHANGED <<url, storage, user, loading, mounted, hrefLog, route, cb,
                   nextTok, refreshCalls, form, jobs, logouts,
                   search, review, pay>>

\* a 2xx response: the response interceptor passes it through and the
\* caller continues
ApiOk(r) ==
    /\ r \in DOMAIN reqs
    /\ reqs[r].pc = "inflight"
    /\ \E data \in Replies(reqs[r]) :
          LET issues == HasTokens(data)
          IN  /\ issues => nextTok <= MaxTok
              /\ nextTok' = IF issues THEN nextTok + 1 ELSE nextTok
              /\ reqs' = [reqs EXCEPT ![r].pc = "resolved",
                                      ![r].reply = ReplyKind(data)]
                          \o Spawned(reqs[r], data, storage)
              /\ SetClient(Continue(reqs[r], TRUE, data, NoError, Client))
    /\ UNCHANGED <<url, mounted, refreshCalls, logouts>>

\* history: a 401 arrived for a not-yet-retried request while a refresh
\* token was stored
Got401WithRefreshToken(err, retry) ==
    err.response /\ err.status = 401 /\ ~retry /\ storage.refresh # NoToken

\* an error for a transmission: the response interceptor's error handler
ApiError(r, err) ==
    /\ r \in DOMAIN reqs
    /\ reqs[r].pc = "inflight"
    /\ LET q == reqs[r]
           act == ErrorAction(err, q.retry, storage.refresh)
       IN  IF act = "refresh"
           THEN /\ reqs' = [reqs EXCEPT ![r] =
                              [q EXCEPT !.retry = RetryMark(err, q.retry),
                                        !.pc = "refreshing",
                                        !.refreshes = @ + 1,
                                        !.hit401rt = @ \/ Got401WithRefreshToken(err, q.retry),
                                        !.refreshWith = storage.refresh,
                                        !.received = err,
                                        !.error = err]]
                /\ refreshCalls' = refreshCalls + 1
                /\ UNCHANGED <<storage, user, loading, hrefLog, route, cb, form, jobs,
                               search, review, pay>>
           ELSE /\ reqs' = [reqs EXCEPT ![r] =
                              [q EXCEPT !.retry = IF act = "throw" THEN q.retry
                                                  ELSE RetryMark(err, q.retry),
                                        !.pc = "rejected",
                                        !.hit401rt = @ \/ Got401WithRefreshToken(err, q.retry),
                                        !.received = err,
                                        !.error = IF act = "throw" THEN TypeError
                                                  ELSE err]]
                /\ refreshCalls' = refreshCalls
                /\ SetClient(Continue(q, FALSE, NoData,
                                      IF act = "throw" THEN TypeError ELSE err,
                                      Client))
    /\ UNCHANGED <<url, mounted, nextTok, logouts>>

\* POST /auth/refresh succeeded: persist the pair, set the header, reissue
RefreshOk(r) ==
    /\ r \in DOMAIN reqs
    /\ reqs[r].pc = "refreshing"
    /\ nextTok <= MaxTok
    /\ LET tokens == TokenPair(nextTok)
           st == StoreTokens(storage, tokens)
           hdr == RequestInterceptor(Bearer(tokens.access_token), st)
       IN  /\ storage' = st
           /\ reqs' = [reqs EXCEPT ![r] =
                         [@ EXCEPT !.pc = "inflight",
                                   !.auth = hdr,
                                   !.newTok = tokens.access_token,
                                   !.sent = Append(@, [auth |-> hdr,
                                                       stored |-> st.access])]]
    /\ nextTok' = nextTok + 1
    /\ UNCHANGED <<url, user, loading, mounted, hrefLog, route, cb, refreshCalls,
                   form, jobs, logouts,
                   search, review, pay>>

\* POST /auth/refresh failed (any status, or no response): the catch block,
\* then Promise.reject(error) with the original error
RefreshFail(r) ==
    /\ r \in DOMAIN reqs
    /\ reqs[r].pc = "refreshing"
    /\ LET q == reqs[r]
           c == [Client EXCEPT !.storage = RemoveTokens(storage),
                               !.hrefLog = Append(@, LoginHref)]
       IN  /\ reqs' = [reqs EXCEPT ![r].pc = "rejected"]
           /\ SetClient(Continue(q, FALSE, NoData, q.error, c))
    /\ UNCHANGED <<url, mounted, nextTok, refreshCalls, logouts>>

\* Login page: handleSubmit up to `await login(email, password)`
LoginSubmit(who) ==
    /\ mounted /\ ChildrenRendered(loading)
    /\ route = LoginPath
    /\ Cardinality(PageRequests) < MaxReq
    /\ form' = [form EXCEPT !.error = ""]
    /\ reqs' = Append(reqs, NewRequestWith("login", storage,
                                           [NoArg EXCEPT !.who = who]))
    /\ UNCHANGED <<url, storage, user, loading, mounted, hrefLog, route, cb,
                   nextTok, refreshCalls, jobs, logouts,
                   search, review, pay>>

\* Register page: handleSubmit up to `await register(formData)`; a short
\* password stops it before any request
RegisterSubmit(who, passwordOk) ==
    /\ mounted /\ ChildrenRendered(loading)
    /\ route = RegisterPath
    /\ form.success = ""
    /\ Cardinality(PageRequests) < MaxReq
    /\ IF passwordOk
       THEN /\ form' = [error |-> "", success |-> ""]
            /\ reqs' = Append(reqs, NewRequestWith("register", storage,
                                                   [NoArg EXCEPT !.who = who]))
       ELSE /\ form' = [error |-> "Password must be at least 8 characters long",
                        success |-> ""]
            /\ reqs' = reqs
    /\ UNCHANGED <<url, storage, user, loading, mounted, hrefLog, route, cb,
                   nextTok, refreshCalls, jobs, logouts,
                   search, review, pay>>

\* the Logout button (Navbar, Dashboard), rendered when a user is set
Logout ==
    /\ mounted /\ ChildrenRendered(loading)
    /\ user # "null"
    /\ logouts < MaxLogout
    /\ logouts' = logouts + 1
    /\ SetClient(logout(Client))
    /\ UNCHANGED <<url, mounted, reqs, nextTok, refreshCalls>>

\* CleanerBookings mounts: its effect calls getCleanerBookings()
CleanerBookingsMount ==
    /\ mounted /\ ChildrenRendered(loading)
    /\ route = JobsPath
    /\ ~jobs.mounted
    /\ jobs' = [jobs EXCEPT !.mounted = TRUE]
    /\ reqs' = Append(reqs, NewRequest("getCleanerBookings", storage))
    /\ UNCHANGED <<url, storage, user, loading, mounted, hrefLog, route, cb,
                   nextTok, refreshCalls, form, logouts,
                   search, review, pay>>

\* a click on one of the buttons offered for a listed booking:
\* handleStatusUpdate up to `await bookingService.updateStatus(..)`
StatusUpdateClick(i, status) ==
    /\ mounted /\ ChildrenRendered(loading)
    /\ route = JobsPath
    /\ jobs.mounted /\ ~jobs.loading
    /\ i \in DOMAIN jobs.bookings
    /\ status \in Offered(jobs.bookings[i].status)
    /\ Cardinality(PageRequests) < MaxReq
    /\ reqs' = Append(reqs, NewRequestWith("updateStatus", storage,
                         [NoArg EXCEPT !.id = jobs.bookings[i].id,
                                       !.status = status]))
    /\ UNCHANGED <<url, storage, user, loading, mounted, hrefLog, route, cb,
                   nextTok, refreshCalls, form, jobs, logouts,
                   search, review, pay>>

\* ServiceList mounts: its effect calls fetchServices()
ServiceListMount ==
    /\ mounted /\ ChildrenRendered(loading)
    /\ route = SearchPath
    /\ ~search.mounted
    /\ search' = [fetchServices(search) EXCEPT !.mounted = TRUE]
    /\ reqs' = Append(reqs, NewRequestWith("searchServices", storage,
                         [NoArg EXCEPT !.id = Len(reqs) + 1,
                                       !.params = URLSearchParams(search.filters)]))
    /\ UNCHANGED <<url, storage, user, loading, mounted, hrefLog, route, cb,
                   nextTok, refreshCalls, form, jobs, logouts, review, pay>>

\* a change of one field of the filter bar
handleFilterChange(name, value) ==
    /\ mounted /\ ChildrenRendered(loading)
    /\ route = SearchPath
    /\ search.mounted
    /\ search.filters[name] # value
    /\ search' = [search EXCEPT !.filters[name] = value]
    /\ UNCHANGED <<url, storage, user, loading, mounted, hrefLog, route, cb, reqs,
                   nextTok, refreshCalls, form, jobs, logouts, review, pay>>

\* the filter bar is submitted: fetchServices() with the filters entered
handleSearch ==
    /\ mounted /\ ChildrenRendered(loading)
    /\ route = SearchPath
    /\ search.mounted
    /\ Cardinality(PageRequests) < MaxReq
    /\ search' = fetchServices(search)
    /\ reqs' = Append(reqs, NewRequestWith("searchServices", storage,
                         [NoArg EXCEPT !.id = Len(reqs) + 1,
                                       !.params = URLSearchParams(search.filters)]))
    /\ UNCHANGED <<url, storage, user, loading, mounted, hrefLog, route, cb,
                   nextTok, refreshCalls, form, jobs, logouts, review, pay>>

\* ReviewBooking mounts: its effect calls bookingService.getBooking(id)
ReviewBookingMount ==
    /\ mounted /\ ChildrenRendered(loading)
    /\ route = ReviewPath
    /\ ~review.mounted
    /\ review' = [review EXCEPT !.mounted = TRUE]
    /\ reqs' = Append(reqs, NewRequestWith("ReviewBooking.getBooking", storage,
                                           [NoArg EXCEPT !.id = TheBooking.id]))
    /\ UNCHANGED <<url, storage, user, loading, mounted, hrefLog, route, cb,
                   nextTok, refreshCalls, form, jobs, logouts, search, pay>>

\* a click on a star of the review form
StarClick(star) ==
    /\ mounted /\ ChildrenRendered(loading)
    /\ route = ReviewPath
    /\ review.mounted /\ ReviewBookingView(review) = "form"
    /\ star \in Stars
    /\ review.rating # star
    /\ review' = [review EXCEPT !.rating = star]
    /\ UNCHANGED <<url, storage, user, loading, mounted, hrefLog, route, cb, reqs,
                   nextTok, refreshCalls, form, jobs, logouts, search, pay>>

\* the review form is submitted: handleSubmit up to
\* `await reviewService.createReview(..)`
ReviewSubmit ==
    /\ mounted /\ ChildrenRendered(loading)
    /\ route = ReviewPath
    /\ review.mounted /\ ReviewBookingView(review) = "form"
    /\ Cardinality(PageRequests) < MaxReq
    /\ reqs' = Append(reqs, NewRequestWith("createReview", storage,
                                           ReviewData(review)))
    /\ UNCHANGED <<url, storage, user, loading, mounted, hrefLog, route, cb,
                   nextTok, refreshCalls, form, jobs, logouts, search, review, pay>>

\* PaymentPage mounts: its effect calls bookingService.getBooking(id)
PaymentPageMount ==
    /\ mounted /\ ChildrenRendered(loading)
    /\ route = PaymentPath
    /\ ~pay.mounted
    /\ pay' = [pay EXCEPT !.mounted = TRUE]
    /\ reqs' = Append(reqs, NewRequestWith("PaymentPage.getBooking", storage,
                                           [NoArg EXCEPT !.id = TheBooking.id]))
    /\ UNCHANGED <<url, storage, user, loading, mounted, hrefLog, route, cb,
                   nextTok, refreshCalls, form, jobs, logouts, search, review>>

\* a click on the pay button: handlePayment up to
\* `await paymentService.initiatePayment(..)`
handlePayment ==
    /\ mounted /\ ChildrenRendered(loading)
    /\ route = PaymentPath
    /\ pay.mounted /\ PaymentPageView(pay) = "page"
    /\ PayButtonEnabled(pay)
    /\ Cardinality(PageRequests) < MaxReq
    /\ pay' = [pay EXCEPT !.processing = TRUE]
    /\ reqs' = Append(reqs, NewRequestWith("initiatePayment", storage,
                                           [NoArg EXCEPT !.id = TheBooking.id]))
    /\ UNCHANGED <<url, storage, user, loading, mounted, hrefLog, route, cb,
                   nextTok, refreshCalls, form, jobs, logouts, search, review>>

MaxRequests == MaxReq + 3

Next ==
    \/ ProviderMount
    \/ GoogleCallbackMount
    \/ PageRequest
    \/ \E r \in 1..MaxRequests : ApiOk(r)
    \/ \E r \in 1..MaxRequests : \E err \in Errors : ApiError(r, err)
    \/ \E r \in 1..MaxRequests : RefreshOk(r)
    \/ \E r \in 1..MaxRequests : RefreshFail(r)

Spec == Init /\ [][Next]_vars

\* the backend answers every call, and every answer is handled
Answer(r) ==
    \/ ApiOk(r)
    \/ \E err \in Errors : ApiError(r, err)
    \/ RefreshOk(r)
    \/ RefreshFail(r)

FairSpec == Spec /\ \A r \in 1..MaxRequests : WF_vars(Answer(r))

\* the Login and Register pages, with the Navbar's Logout
SessionNext ==
    \/ ProviderMount
    \/ \E who \in Users : LoginSubmit(who)
    \/ \E who \in Users : \E passwordOk \in BOOLEAN : RegisterSubmit(who, passwordOk)
    \/ Logout
    \/ \E r \in 1..MaxRequests : ApiOk(r)
    \/ \E r \in 1..MaxRequests : \E err \in Errors : ApiError(r, err)
    \/ \E r \in 1..MaxRequests : RefreshOk(r)
    \/ \E r \in 1..MaxRequests : RefreshFail(r)

SessionSpec == SessionInit /\ [][SessionNext]_vars

\* the CleanerBookings page
JobsNext ==
    \/ ProviderMount
    \/ CleanerBookingsMount
    \/ \E i \in DOMAIN jobs.bookings : \E status \in Statuses : StatusUpdateClick(i, status)
    \/ \E r \in 1..MaxRequests : ApiOk(r)
    \/ \E r \in 1..MaxRequests : \E err \in Errors : ApiError(r, err)
    \/ \E r \in 1..MaxRequests : RefreshOk(r)
    \/ \E r \in 1..MaxRequests : RefreshFail(r)

JobsSpec == JobsInit /\ [][JobsNext]_vars

\* the ReviewBooking page
ReviewNext ==
    \/ ProviderMount
    \/ ReviewBookingMount
    \/ \E star \in ClickedStars : StarClick(star)
    \/ ReviewSubmit
    \/ \E r \in 1..MaxRequests : ApiOk(r)
    \/ \E r \in 1..MaxRequests : \E err \in Errors : ApiError(r, err)
    \/ \E r \in 1..MaxRequests : RefreshOk(r)
    \/ \E r \in 1..MaxRequests : RefreshFail(r)

ReviewSpec == ReviewInit /\ [][ReviewNext]_vars

\* every way the session changes: login, register, the OAuth code exchange,
\* the identity check, logout, and the refreshes of their requests
AuthNext ==
    \/ ProviderMount
    \/ GoogleCallbackMount
    \/ \E who \in Users : LoginSubmit(who)
    \/ \E who \in Users : \E passwordOk \in BOOLEAN : RegisterSubmit(who, passwordOk)
    \/ Logout
    \/ \E r \in 1..MaxRequests : ApiOk(r)
    \/ \E r \in 1..MaxRequests : \E err \in Errors : ApiError(r, err)
    \/ \E r \in 1..MaxRequests : RefreshOk(r)
    \/ \E r \in 1..MaxRequests : RefreshFail(r)

AuthSpec == AuthInit /\ [][AuthNext]_vars

\* the PaymentPage
PaymentNext ==
    \/ ProviderMount
    \/ PaymentPageMount
    \/ handlePayment
    \/ \E r \in 1..MaxRequests : ApiOk(r)
    \/ \E r \in 1..MaxRequests : \E err \in Errors : ApiError(r, err)
    \/ \E r \in 1..MaxRequests : RefreshOk(r)
    \/ \E r \in 1..MaxRequests : RefreshFail(r)

PaymentSpec == PaymentInit /\ [][PaymentNext]_vars

\* the ServiceList page
SearchNext ==
    \/ ProviderMount
    \/ ServiceListMount
    \/ \E name \in DOMAIN NoFilters : \E value \in FilterValues(name) :
          handleFilterChange(name, value)
    \/ handleSearch
    \/ \E r \in 1..MaxRequests : ApiOk(r)
    \/ \E r \in 1..MaxRequests : \E err \in Errors : ApiError(r, err)
    \/ \E r \in 1..MaxRequests : RefreshOk(r)
    \/ \E r \in 1..MaxRequests : RefreshFail(r)

SearchSpec == SearchInit /\ [][SearchNext]_vars

TypeOK ==
    /\ storage \in [access : 0..MaxTok, refresh : 0..MaxTok]
    /\ user \in {"null"} \cup Users
    /\ loading \in BOOLEAN
    /\ Len(reqs) <= MaxRequests
    /\ \A r \in DOMAIN reqs : reqs[r].owner \in Owners

\* ================================================================ claims

Settled(r) == r \in DOMAIN reqs /\ reqs[r].pc \in {"resolved", "rejected"}
StorageEmpty(st) == st.access = NoToken /\ st.refresh = NoToken
ExchangeCalls ==
    Cardinality({r \in DOMAIN reqs : reqs[r].owner \in OAuthOwners})
\* this step assigned an href with the given path
NavigatedTo(path) ==
    \E i \in (Len(hrefLog) + 1)..Len(hrefLog') : hrefLog'[i].path = path

\* C1: a callback page load whose URL carries `code` makes at most one
\* GET /auth/google/callback call, and exactly one once the callback page's
\* effect has run (all handlers of the page load counted).
C1_ExactlyOneExchange ==
    (url.path \in CallbackRoutes /\ url.code) =>
        /\ ExchangeCalls <= 1
        /\ (cb.mounted /\ ~url.error) => ExchangeCalls = 1

\* C2: a 401 rejected while no refresh token is stored leaves both tokens
\* removed and navigates to /login.
C2_NoRefreshTokenLogsOut ==
    [][\A r \in DOMAIN reqs :
          (/\ reqs[r].pc = "inflight"
           /\ storage.refresh = NoToken
           /\ reqs'[r].pc = "rejected"
           /\ reqs'[r].error = HttpError(401))
          => (StorageEmpty(storage') /\ NavigatedTo("/login"))]_vars

\* C3: when the refresh call of a request fails, both tokens are removed,
\* '/login' is assigned to window.location.href, and the request is rejected
\* without ever being transmitted a second time.
C3_RefreshFailureLogsOut ==
    /\ [][\A r \in DOMAIN reqs :
            (reqs[r].pc = "refreshing" /\ reqs'[r].pc = "rejected")
            => /\ StorageEmpty(storage')
               /\ Len(hrefLog') > Len(hrefLog)
               /\ hrefLog'[Len(hrefLog) + 1] = LoginHref
               /\ reqs'[r].sent = reqs[r].sent]_vars
    /\ [](\A r \in DOMAIN reqs :
            (reqs[r].pc = "rejected" /\ reqs[r].refreshes = 1
             /\ reqs[r].newTok = NoToken) => Len(reqs[r].sent) = 1)

C3_Witness ==
    \E r \in DOMAIN reqs :
        /\ reqs[r].pc = "rejected" /\ reqs[r].refreshes = 1
        /\ reqs[r].newTok = NoToken
        /\ reqs[r].sent[1].stored # NoToken
        /\ StorageEmpty(storage)
        /\ hrefLog # <<>> /\ hrefLog[1] = LoginHref

\* C4: a request whose refresh succeeded has been transmitted exactly twice
\* after exactly one refresh; whatever answer the second transmission gets
\* settles the request: no further transmission, no further refresh call,
\* and an error answer rejects it.
C4_RetriedExactlyOnce ==
    /\ [](\A r \in DOMAIN reqs :
            reqs[r].newTok # NoToken =>
                Len(reqs[r].sent) = 2 /\ reqs[r].refreshes = 1)
    /\ [][\A r \in DOMAIN reqs :
            (reqs[r].pc = "inflight" /\ reqs[r].newTok # NoToken
             /\ reqs'[r] # reqs[r])
            => /\ reqs'[r].pc \in {"resolved", "rejected"}
               /\ reqs'[r].sent = reqs[r].sent
               /\ reqs'[r].refreshes = reqs[r].refreshes
               /\ refreshCalls' = refreshCalls
               /\ (reqs'[r].error # reqs[r].error => reqs'[r].pc = "rejected")]_vars

C4_Witness ==
    \E r \in DOMAIN reqs :
        /\ Len(reqs[r].sent) = 2
        /\ reqs[r].pc = "rejected"
        /\ reqs[r].error = HttpError(401)
        /\ reqs[r].refreshes = 1

\* C5: the identity check on mount (GET /auth/me) never has a refresh call
\* made on its behalf.
C5_NoRefreshDuringIdentityCheck ==
    \A r \in DOMAIN reqs :
        reqs[r].owner = "checkAuth" => reqs[r].refreshes = 0

RECURSIVE SumRefreshes(_)
SumRefreshes(n) ==
    IF n = 0 THEN 0 ELSE reqs[n].refreshes + SumRefreshes(n - 1)

\* C6: every request has at most one refresh call made for it and is
\* transmitted at most twice; the refresh calls on the wire are exactly
\* those (an error from the refresh endpoint, 401 included, adds none); and
\* when every call is answered each request settles.
C6_BoundedRefreshAndSettles ==
    /\ [](\A r \in DOMAIN reqs :
            reqs[r].refreshes <= 1 /\ Len(reqs[r].sent) <= 2)
    /\ [](refreshCalls = SumRefreshes(Len(reqs)))
    /\ \A r \in 1..MaxRequests : (r \in DOMAIN reqs) ~> Settled(r)

C6_Witness ==
    \E r \in DOMAIN reqs :
        /\ reqs[r].refreshes = 1
        /\ Len(reqs[r].sent) = 2
        /\ Settled(r)
        /\ \E q \in DOMAIN reqs :
              q # r /\ reqs[q].refreshes = 1 /\ reqs[q].newTok = NoToken
              /\ reqs[q].pc = "rejected"

\* C7: every transmission through the wrapper carries Bearer <the access
\* token stored when it was sent> if one was stored, and no Authorization
\* header if none was.
C7_BearerOfStoredToken ==
    \A r \in DOMAIN reqs : \A i \in 1..Len(reqs[r].sent) :
        reqs[r].sent[i].auth =
            IF reqs[r].sent[i].stored # NoToken
            THEN [scheme |-> "Bearer", cred |-> reqs[r].sent[i].stored]
            ELSE [scheme |-> "none", cred |-> NoToken]

C7_Witness ==
    \E a, b \in DOMAIN reqs :
        /\ reqs[a].sent[1].stored # NoToken
        /\ Len(reqs[a].sent) = 2
        /\ reqs[a].sent[2].stored # reqs[a].sent[1].stored
        /\ reqs[b].sent[1].stored = NoToken

\* C8: while the refresh call of a request is in flight the request is
\* already marked retried; the step that reissues a request is the one that
\* handles its refresh response, it leaves the new pair in storage, and the
\* second transmission carries the new access token, not the one of the
\* first transmission.
C8_RefreshThenReissueWithNewToken ==
    /\ [](\A r \in DOMAIN reqs :
            /\ reqs[r].pc = "refreshing" =>
                  reqs[r].retry /\ Len(reqs[r].sent) = 1
            /\ Len(reqs[r].sent) >= 2 =>
                  /\ reqs[r].retry
                  /\ reqs[r].newTok # NoToken
                  /\ reqs[r].sent[2].auth = Bearer(reqs[r].newTok)
                  /\ reqs[r].sent[2].stored = reqs[r].newTok
                  /\ reqs[r].sent[2].auth # reqs[r].sent[1].auth
                  /\ reqs[r].sent[1].stored # reqs[r].newTok)
    /\ [][\A r \in DOMAIN reqs :
            Len(reqs'[r].sent) > Len(reqs[r].sent)
            => /\ reqs[r].pc = "refreshing"
               /\ storage'.access = reqs'[r].newTok
               /\ storage'.refresh = TokenPair(reqs'[r].newTok).refresh_token
               /\ storage'.access # storage.access]_vars

C8_Witness ==
    \E r \in DOMAIN reqs :
        /\ Len(reqs[r].sent) = 2
        /\ reqs[r].sent[1].auth.scheme = "Bearer"
        /\ reqs[r].sent[2].auth.scheme = "Bearer"

\* C9: every request that got a 401 (first transmission) while a refresh
\* token was stored has its own refresh call: the number of refresh calls is
\* the number of such requests, and every refresh success writes its pair.
C9_IndependentRefreshes ==
    /\ [](\A r \in DOMAIN reqs : reqs[r].hit401rt <=> reqs[r].refreshes = 1)
    /\ [](refreshCalls = Cardinality({r \in DOMAIN reqs : reqs[r].hit401rt}))
    /\ [][\A r \in DOMAIN reqs :
            (reqs[r].pc = "refreshing" /\ reqs'[r].pc = "inflight")
            => storage' = [access |-> TokenPair(reqs'[r].newTok).access_token,
                           refresh |-> TokenPair(reqs'[r].newTok).refresh_token]]_vars

C9_Witness ==
    \E a, b \in DOMAIN reqs :
        /\ a # b
        /\ reqs[a].hit401rt /\ reqs[b].hit401rt
        /\ reqs[a].refreshWith = reqs[b].refreshWith
        /\ reqs[a].newTok # NoToken /\ reqs[b].newTok # NoToken
        /\ reqs[a].newTok < reqs[b].newTok
        /\ storage.access = reqs[b].newTok
        /\ refreshCalls = 2

\* C10: a callback page load whose URL carries `error` makes no
\* code-exchange call, and the callback page, once its effect has run, is in
\* its failure state.
C10_ErrorParamNoExchange ==
    (url.path \in CallbackRoutes /\ url.error) =>
        /\ ExchangeCalls = 0
        /\ cb.mounted => (~cb.loading /\ cb.error # "")

\* this step settled request r with the given outcome
Settles(r, outcome) ==
    reqs[r].pc # outcome /\ reqs'[r].pc = outcome

\* C11: when the identity check fails, both tokens are removed and the
\* session is anonymous (user null, loading false); when no access token is
\* stored at mount, no identity request is sent and the session is anonymous.
C11_IdentityFailureAnonymous ==
    /\ [][\A r \in DOMAIN reqs :
            (reqs[r].owner = "checkAuth" /\ Settles(r, "rejected"))
            => (StorageEmpty(storage') /\ user' = "null" /\ ~loading')]_vars
    /\ [][(~mounted /\ mounted' /\ storage.access = NoToken)
            => /\ \A r \in DOMAIN reqs' : reqs'[r].owner # "checkAuth"
               /\ user' = "null" /\ ~loading']_vars

\* C12: the step in which login() succeeds sets the user to the user the
\* backend returned and leaves in storage exactly the pair of that response.
C12_LoginAuthenticates ==
    [][\A r \in DOMAIN reqs :
          (reqs[r].owner = "login" /\ Settles(r, "resolved"))
          => /\ user' = reqs[r].arg.who
             /\ storage'.access = TokenPair(nextTok).access_token
             /\ storage'.refresh = TokenPair(nextTok).refresh_token
             /\ nextTok' = nextTok + 1]_vars

C12_Witness ==
    \E r \in DOMAIN reqs :
        /\ reqs[r].owner = "login" /\ reqs[r].pc = "resolved"
        /\ reqs[r].arg.who = "bob" /\ user = "bob"
        /\ reqs[r].sent[1].stored = 1
        /\ storage.access = nextTok - 1 /\ storage.refresh = nextTok - 1

\* C13: an error response to POST /auth/login (401 included) rejects login()
\* with that error in the same step and changes nothing else: user and
\* tokens as before, no refresh call, no redirect.
C13_LoginRejectionChangesNothing ==
    [][\A r \in DOMAIN reqs :
          (/\ reqs[r].owner = "login"
           /\ reqs[r].pc = "inflight" /\ reqs'[r].pc # "inflight"
           /\ reqs'[r].received # reqs[r].received
           /\ reqs'[r].received.response)
          => /\ reqs'[r].pc = "rejected"
             /\ reqs'[r].error = reqs'[r].received
             /\ user' = user
             /\ storage' = storage
             /\ refreshCalls' = refreshCalls
             /\ hrefLog' = hrefLog]_vars

C15_LogoutClears ==
    [][logouts' # logouts
        => /\ StorageEmpty(storage')
           /\ user' = "null"
           /\ Len(hrefLog') = Len(hrefLog) + 1
           /\ hrefLog'[Len(hrefLog')] = LoginHref]_vars

C15_Witness ==
    /\ logouts = 1
    /\ user = "null" /\ StorageEmpty(storage)
    /\ \E r \in DOMAIN reqs :
          /\ reqs[r].owner = "login" /\ reqs[r].pc = "resolved"
    /\ hrefLog = <<LoginHref>>

\* a request made by a routed page (anything rendered below AuthProvider)
PageIssued(r) ==
    reqs[r].owner \in UserOwners \cup {"pageOAuth", "getCleanerBookings"}

\* C16: the session context starts in loading; while loading is true no
\* routed page is rendered and no page-issued request exists; once loading
\* is false it never returns to true; and when the identity request is
\* answered loading does become false, with the identity request settled.
C16_LoadingGate ==
    /\ loading = TRUE
    /\ [](loading => /\ ~cb.mounted /\ ~jobs.mounted
                     /\ \A r \in DOMAIN reqs : ~PageIssued(r))
    /\ [][~loading => ~loading']_vars
    /\ [](~loading => \A r \in DOMAIN reqs :
                         reqs[r].owner = "checkAuth" => Settled(r))
    /\ (mounted ~> ~loading)

C16_Witness ==
    /\ ~loading
    /\ \E r \in DOMAIN reqs :
          /\ reqs[r].owner = "checkAuth" /\ reqs[r].pc = "resolved"
          /\ reqs[r].refreshes = 1
    /\ \E r \in DOMAIN reqs : PageIssued(r)
    /\ user # "null"

\* callers whose own catch block changes storage or location on a rejection
CatchingOwners == {"checkAuth", "providerOAuth"}

\* C17: the step that handles a response with an error status other than
\* 401 rejects the request with that same error, makes no refresh call and
\* does not reissue the request; the stored tokens and location.href are as
\* before (checked for the callers that do not themselves clear the session
\* in their catch block).
C17_OtherStatusSurfaced ==
    [][\A r \in DOMAIN reqs :
          (/\ reqs[r].pc = "inflight" /\ reqs'[r].pc # "inflight"
           /\ reqs'[r].received.response
           /\ reqs'[r].received.status \in ErrorStatuses \ {401})
          => /\ reqs'[r].pc = "rejected"
             /\ reqs'[r].error = reqs'[r].received
             /\ reqs'[r].sent = reqs[r].sent
             /\ refreshCalls' = refreshCalls
             /\ reqs[r].owner \notin CatchingOwners
                   => storage' = storage /\ hrefLog' = hrefLog]_vars

C17_Witness ==
    \E r \in DOMAIN reqs :
        /\ reqs[r].owner = "page" /\ reqs[r].pc = "rejected"
        /\ reqs[r].error.response /\ reqs[r].error.status = 403
        /\ reqs[r].refreshes = 0 /\ Len(reqs[r].sent) = 1
        /\ storage.refresh # NoToken
        /\ refreshCalls = 0 /\ hrefLog = <<>>

\* C18: a request that failed with no HTTP response at all is rejected to
\* its caller with that same error.
C18_TransportErrorUnchanged ==
    \A r \in DOMAIN reqs :
        (/\ reqs[r].owner \in {"getCleanerBookings", "updateStatus"}
         /\ reqs[r].pc = "rejected" /\ ~reqs[r].received.response)
        => reqs[r].error = reqs[r].received

\* C19: the step in which a code exchange fails stores no token, leaves the
\* user as it was, assigns nothing to location.href and navigates nowhere;
\* the callback page that made the exchange shows its failure state.
C19_ExchangeFailureStaysOnPage ==
    [][\A r \in DOMAIN reqs :
          (reqs[r].owner \in OAuthOwners /\ Settles(r, "rejected"))
          => /\ storage' = storage
             /\ user' = user
             /\ hrefLog' = hrefLog
             /\ route' = route
             /\ reqs[r].owner = "pageOAuth"
                   => cb'.error # "" /\ ~cb'.loading]_vars

\* C20: the step in which an update of booking b to status s succeeds leaves
\* a list of the same bookings in which b has status s, every other field of
\* b and every other booking are as before, and no request is made; the
\* step in which an update fails leaves the list as it was.
C20_StatusUpdateInPlace ==
    [][\A r \in DOMAIN reqs :
          /\ (reqs[r].owner = "updateStatus" /\ Settles(r, "resolved"))
             => /\ Len(jobs'.bookings) = Len(jobs.bookings)
                /\ \E i \in DOMAIN jobs'.bookings :
                      /\ jobs'.bookings[i].id = reqs[r].arg.id
                      /\ jobs'.bookings[i].status = reqs[r].arg.status
                /\ \A i \in DOMAIN jobs.bookings :
                      jobs'.bookings[i] =
                         IF jobs.bookings[i].id = reqs[r].arg.id
                         THEN [jobs.bookings[i] EXCEPT !.status = reqs[r].arg.status]
                         ELSE jobs.bookings[i]
                /\ Len(reqs') = Len(reqs)
                /\ jobs'.loading = jobs.loading
          /\ (reqs[r].owner = "updateStatus" /\ Settles(r, "rejected"))
             => /\ jobs'.bookings = jobs.bookings
                /\ Len(reqs') = Len(reqs)]_vars

C20_Witness ==
    /\ \E a, b \in DOMAIN reqs :
          /\ a < b
          /\ reqs[a].owner = "updateStatus" /\ reqs[a].pc = "resolved"
          /\ reqs[a].arg.id = 1 /\ reqs[a].arg.status = "confirmed"
          /\ reqs[b].owner = "updateStatus" /\ reqs[b].pc = "resolved"
          /\ reqs[b].arg.id = 1 /\ reqs[b].arg.status = "in_progress"
    /\ jobs.bookings = <<Booking(1, "in_progress", 10), Booking(2, "completed", 20)>>
    /\ Cardinality({r \in DOMAIN reqs : reqs[r].owner = "getCleanerBookings"}) = 1

\* the transitions the job list is to offer, as pairs <<from, to>>
JobTransitions ==
    {<<"pending", "confirmed">>, <<"pending", "cancelled">>,
     <<"confirmed", "in_progress">>, <<"in_progress", "completed">>}

\* C21: for every booking shown in the cleaner job list the statuses offered
\* are exactly those of the table (pending: confirmed, cancelled; confirmed:
\* in_progress; in_progress: completed; completed, cancelled: none), and
\* every update request a click sends is one of the offered transitions of
\* the status displayed at the click.
C21_OfferedByStatus ==
    /\ [](\A i \in DOMAIN jobs.bookings :
            Offered(jobs.bookings[i].status) =
               {t \in Statuses : <<jobs.bookings[i].status, t>> \in JobTransitions})
    /\ [][\A r \in DOMAIN reqs' :
            (r \notin DOMAIN reqs /\ reqs'[r].owner = "updateStatus")
            => \E i \in DOMAIN jobs.bookings :
                  /\ jobs.bookings[i].id = reqs'[r].arg.id
                  /\ <<jobs.bookings[i].status, reqs'[r].arg.status>> \in JobTransitions]_vars

C21_Witness ==
    /\ Len(jobs.bookings) = 2
    /\ jobs.bookings[1].status = "completed"
    /\ jobs.bookings[2].status = "completed"
    /\ \E r \in DOMAIN reqs :
          /\ reqs[r].owner = "updateStatus" /\ reqs[r].arg.status = "completed"

\* C23: when the fetch a data page issues on mount fails, the page leaves
\* its loading state and renders an error message, not its empty-result
\* view (stated for the CleanerBookings page).
C23_FetchFailureShowsError ==
    \A r \in DOMAIN reqs :
        (reqs[r].owner = "getCleanerBookings" /\ reqs[r].pc = "rejected")
        => /\ ~jobs.loading
           /\ CleanerBookingsView(jobs) = "error"

\* C27: whenever the displayed status of a booking of the job list changes,
\* it changes along pending -> confirmed -> in_progress -> completed or
\* pending -> cancelled.
C27_StatusFollowsTransitions ==
    [][\A i \in DOMAIN jobs.bookings :
          (/\ ~jobs.loading
           /\ i \in DOMAIN jobs'.bookings
           /\ jobs'.bookings[i].status # jobs.bookings[i].status)
          => <<jobs.bookings[i].status, jobs'.bookings[i].status>> \in JobTransitions]_vars

\* the name=value parameters of the query string of a search request
QueryParameters(q) ==
    {<<q.arg.params[i].name, q.arg.params[i].value>> : i \in DOMAIN q.arg.params}

\* C22: a search submitted with category=deep, min_price=500 and max_price
\* empty sends a GET /services/search whose query has exactly the
\* parameters category=deep and min_price=500.
C22_SearchCarriesExactlyTheFilters ==
    [][\A r \in DOMAIN reqs' :
          (/\ r \notin DOMAIN reqs
           /\ reqs'[r].owner = "searchServices"
           /\ search.filters = [category |-> "deep", min_price |-> "500",
                                max_price |-> ""])
          => QueryParameters(reqs'[r]) =
                {<<"category", "deep">>, <<"min_price", "500">>}]_vars

SearchRequests == {r \in DOMAIN reqs : reqs[r].owner = "searchServices"}
LastSearch == CHOOSE r \in SearchRequests : \A o \in SearchRequests : o <= r

\* C28: on the search page the loading indicator is shown while any search
\* request is in flight, and once all have settled the rendered list is the
\* response to the search submitted last.
C28_LatestSearchWins ==
    search.mounted =>
        /\ (\E r \in SearchRequests : ~Settled(r)) => ServiceListView(search) = "loading"
        /\ (/\ \A r \in SearchRequests : Settled(r)
            /\ reqs[LastSearch].pc = "resolved")
           => /\ ServiceListView(search) = "list"
              /\ search.services = ServicesFor(reqs[LastSearch])

\* a submission of the review form posts one review built from the form
ReviewPostsTheForm ==
    \A r \in DOMAIN reqs' :
        (r \notin DOMAIN reqs /\ reqs'[r].owner = "createReview")
        => /\ Len(reqs') = Len(reqs) + 1
           /\ reqs'[r].arg.id = TheBooking.id
           /\ reqs'[r].arg.who = review.booking.cleaner_id
           /\ reqs'[r].arg.rating = review.rating
           /\ reqs'[r].arg.rating \in 1..5
           /\ reqs'[r].arg.comment = review.comment

\* the router goes to /my-bookings only in the step a post succeeds
ReviewNavigatesOnSuccessOnly ==
    (route' = MyBookingsPath /\ route # MyBookingsPath)
    => \E r \in DOMAIN reqs :
          reqs[r].owner = "createReview" /\ Settles(r, "resolved")

\* C24: submitting the review form posts exactly one review {booking_id,
\* cleaner_id, rating, comment} with the rating currently selected (1..5);
\* the page navigates to /my-bookings only when that post succeeds; when the
\* post fails no navigation of any kind occurs and the error is shown.
C24_ReviewSubmitOriginal ==
    [][/\ ReviewPostsTheForm
       /\ ReviewNavigatesOnSuccessOnly
       /\ \A r \in DOMAIN reqs :
             (reqs[r].owner = "createReview" /\ Settles(r, "rejected"))
             => /\ route' = route
                /\ hrefLog' = hrefLog
                /\ ReviewBookingView(review') = "error"]_vars

\* C24 (amended): as above, except that a post that fails because the token
\* refresh it triggered failed is followed by the API client's redirect to
\* /login; no other location change occurs on a failed post, the router
\* stays on the review page and the error is shown.
C24_ReviewSubmit ==
    [][/\ ReviewPostsTheForm
       /\ ReviewNavigatesOnSuccessOnly
       /\ \A r \in DOMAIN reqs :
             (reqs[r].owner = "createReview" /\ Settles(r, "rejected"))
             => /\ route' = route
                /\ hrefLog' = IF reqs[r].pc = "refreshing"
                              THEN Append(hrefLog, LoginHref) ELSE hrefLog
                /\ ReviewBookingView(review') = "error"]_vars

C24_Witness ==
    /\ route = MyBookingsPath
    /\ \E a, b \in DOMAIN reqs :
          /\ reqs[a].owner = "createReview" /\ reqs[a].pc = "resolved"
          /\ reqs[a].arg.rating = 4
          /\ reqs[b].owner = "createReview" /\ reqs[b].pc = "rejected"
          /\ reqs[b].refreshes = 1
    /\ review.error # ""
    /\ hrefLog = <<LoginHref>>

PaymentRequests ==
    {r \in DOMAIN reqs : reqs[r].owner \in {"initiatePayment", "verifyPayment"}}

\* C29: POST /payments/verify/{id} is sent only after an initiate call
\* succeeded and with the payment_id that call returned; the page goes to
\* /my-bookings only in the step a verify call succeeds; no payment is
\* started while processing is true; and processing is false once the
\* payment flow has ended, whatever its outcome.
C29_PaymentFlowOrder ==
    /\ [](\A v \in DOMAIN reqs :
            reqs[v].owner = "verifyPayment"
            => \E i \in DOMAIN reqs :
                  /\ i < v
                  /\ reqs[i].owner = "initiatePayment"
                  /\ reqs[i].pc = "resolved"
                  /\ reqs[i].reply \in PaymentIds
                  /\ reqs[v].arg.payment = reqs[i].reply)
    /\ [][(route' = MyBookingsPath /\ route # MyBookingsPath)
            => \E v \in DOMAIN reqs :
                  reqs[v].owner = "verifyPayment" /\ Settles(v, "resolved")]_vars
    /\ [][\A r \in DOMAIN reqs' :
            (r \notin DOMAIN reqs /\ reqs'[r].owner = "initiatePayment")
            => ~pay.processing /\ pay'.processing]_vars
    /\ []((\A r \in PaymentRequests : Settled(r)
             /\ (reqs[r].owner = "initiatePayment" /\ reqs[r].pc = "resolved"
                 => \E v \in PaymentRequests : v > r))
          => ~pay.processing)

C29_Witness ==
    /\ route = MyBookingsPath
    /\ ~pay.processing
    /\ \E i, v \in DOMAIN reqs :
          /\ reqs[i].owner = "initiatePayment" /\ reqs[i].reply = "pay_2"
          /\ reqs[v].owner = "verifyPayment" /\ reqs[v].pc = "resolved"
          /\ reqs[v].arg.payment = "pay_2"
          /\ reqs[v].refreshes = 1

\* C25: after every step of login, register, OAuth exchange, refresh,
\* identity-check failure and logout, access_token and refresh_token are both
\* absent or are the two tokens of one backend response.
C25_TokensStoredAsPair ==
    \/ storage = [access |-> NoToken, refresh |-> NoToken]
    \/ \E k \in 1..(nextTok - 1) :
          storage = [access |-> TokenPair(k).access_token,
                     refresh |-> TokenPair(k).refresh_token]

C25_Witness ==
    /\ \E r \in DOMAIN reqs :
          /\ reqs[r].owner = "login" /\ reqs[r].pc = "resolved"
          /\ reqs[r].sent[1].stored = NoToken
    /\ \E r \in DOMAIN reqs :
          /\ reqs[r].newTok # NoToken
          /\ storage.access = reqs[r].newTok
          /\ storage.refresh = TokenPair(reqs[r].newTok).refresh_token

Refreshed == {r \in DOMAIN reqs : reqs[r].refreshes > 0}

\* the backend accepted every refresh token at most once, and refused a
\* refresh only because its token had already been accepted
SingleUseBackend ==
    /\ \A a, b \in Refreshed :
          (a # b /\ reqs[a].newTok # NoToken /\ reqs[b].newTok # NoToken)
          => reqs[a].refreshWith # reqs[b].refreshWith
    /\ \A a \in Refreshed :
          (reqs[a].pc # "refreshing" /\ reqs[a].newTok = NoToken)
          => \E b \in Refreshed :
                /\ reqs[b].newTok # NoToken
                /\ reqs[b].refreshWith = reqs[a].refreshWith

\* C26: with a backend that accepts each refresh token once, when the
\* refresh calls of several requests answered 401 have all settled and at
\* least one succeeded, storage holds the pair of a successful refresh and
\* there was no redirect to /login.
C26_ConcurrentRefreshKeepsSession ==
    (/\ Cardinality(Refreshed) > 1
     /\ \A r \in Refreshed : reqs[r].pc # "refreshing"
     /\ \E r \in Refreshed : reqs[r].newTok # NoToken
     /\ \A r \in Refreshed : reqs[r].owner = "page"
     /\ SingleUseBackend)
    => /\ \E r \in Refreshed :
             /\ reqs[r].newTok # NoToken
             /\ storage = [access |-> TokenPair(reqs[r].newTok).access_token,
                           refresh |-> TokenPair(reqs[r].newTok).refresh_token]
       /\ \A i \in DOMAIN hrefLog : hrefLog[i] # LoginHref

\* C30: whenever user is non-null, an access token is in storage.
C30_UserHasAccessToken ==
    user # "null" => storage.access # NoToken

====
